---- MODULE Spec2Model ----
(***************************************************************************)
(* The scan orchestrator of the camera quiz solver (App in src/types.ts), *)
(* the camera component it drives (src/components/CameraView.tsx) and the  *)
(* inference client it awaits (src/services/geminiService.ts), as one     *)
(* state machine.  One action per event-loop task: a click handler with    *)
(* the React effects its state change runs, a timer callback, or the       *)
(* continuation of an awaited promise.  Timers are time-abstract: a timer  *)
(* that is armed may fire at any later step.                               *)
(***************************************************************************)
EXTENDS Integers, Sequences, FiniteSets, TLC

\* ---------------------------------------------------------------- bounds
MaxResults == 2      \* scans started in one run
MaxClock == 1        \* milliseconds Date.now() advances in one run
MaxToggles == 4      \* handleToggle() calls in one run
MaxTicks == 2        \* countdown ticks between two resets of the countdown
MaxLen == 3          \* tokens in one raw model output

\* ------------------------------------------------------ program constants
AUTO_SCAN_INTERVAL_MS == 30000
COUNTDOWN_STEP_MS == 1000
STABILIZATION_DELAY_MS == 1500
MAX_ANSWER_LENGTH == 15
DEFAULT_MIN_ZOOM == 10      \* capabilities.zoom.min || 1, in tenths
DEFAULT_MAX_ZOOM == 100     \* capabilities.zoom.max || 10, in tenths
DEFAULT_ZOOM == 10          \* track.getSettings().zoom || 1, in tenths

\* ------------------------------------------------------------------ state
VARIABLES
    isActive,           \* App state isActive
    results,            \* App state results: ScanResult[], newest first
    timeUntilNextScan,  \* App state timeUntilNextScan (ms)
    isProcessing,       \* isProcessingRef.current, the lock
    intervalOn,         \* the interval of intervalRef is armed (periodic scan)
    timerOn,            \* the interval of timerRef is armed (1 s countdown)
    stabTimeouts,       \* armed setTimeout(performScan, 1500), by the toggle that armed it
    calls,              \* performScan invocations suspended at the await, by their newId
    now,                \* Date.now()
    toggles,            \* number of handleToggle() calls so far
    srcObject,          \* videoRef.current.srcObject
    curStream,          \* the variable `stream` of the latest CameraView effect run
    liveStreams,        \* acquired streams whose tracks were not stopped
    hdPending,          \* effect runs awaiting the preferred getUserMedia
    vgaPending,         \* effect runs awaiting the fallback getUserMedia
    supportsZoom,       \* CameraView state supportsZoom
    lateCalls,          \* apiCall promises still unsettled after their race was lost
    intervalLeft,       \* ms until the callback of the scan interval is due
    tickLeft,           \* ms until the callback of the countdown interval is due
    stabLeft,           \* <<toggle, ms left>> of each armed setTimeout(performScan, 1500)
    rawOutput,          \* response.text handed to the answer clean-up
    answerText,         \* the text the inference client returns for rawOutput
    zoom,               \* CameraView state zoom, in tenths
    minZoom,            \* CameraView state minZoom, in tenths
    maxZoom,            \* CameraView state maxZoom, in tenths
    lastOp              \* which handler ran last, and how it ended

vars == <<isActive, results, timeUntilNextScan, isProcessing, intervalOn, timerOn,
          stabTimeouts, calls, now, toggles, srcObject, curStream, liveStreams,
          hdPending, vgaPending, supportsZoom, lateCalls, intervalLeft, tickLeft, stabLeft,
          rawOutput, answerText, zoom, minZoom, maxZoom, lastOp>>

orchVars == <<results, timeUntilNextScan, isProcessing, calls, now>>
camVars == <<srcObject, curStream, liveStreams, hdPending, vgaPending, supportsZoom>>
timerVars == <<intervalOn, timerOn, stabTimeouts>>

\* State that only some of the handlers touch; the others leave it alone.
lateVars == <<lateCalls>>
timedVars == <<intervalLeft, tickLeft, stabLeft>>
parseVars == <<rawOutput, answerText>>
zoomVars == <<zoom, minZoom, maxZoom>>
otherVars == <<lateVars, timedVars, parseVars, zoomVars>>
untimedVars == <<lateVars, parseVars, zoomVars>>

\* ------------------------------------------------------------- data model
NULL == "null"
Undefined == "undefined"
NoStream == <<0, "none">>
Stream(e, mode) == <<e, mode>>

Answers == {"A", "B"}

\* What Promise.race([apiCall, timeoutCall]) settles with.
RaceOutcomes ==
    {[kind |-> "response", answer |-> a] : a \in Answers}
    \cup {[kind |-> "rejected", message |-> m] : m \in {"network", "SAFETY"}}
    \cup {[kind |-> "timeout", message |-> "timed out"]}

\* A new ScanResult that shows a placeholder answer while it loads.
NewResult_PlaceholderText(id, ts, image) ==
    [id |-> id, timestamp |-> ts, imageUrl |-> image, text |-> "...",
     reasoning |-> "", sources |-> <<>>, loading |-> TRUE, error |-> Undefined]

\* ScanResult as performScan creates it.
NewResult(id, ts, image) ==
    [id |-> id, timestamp |-> ts, imageUrl |-> image, text |-> "",
     reasoning |-> "", sources |-> <<>>, loading |-> TRUE, error |-> Undefined]

\* ------------------------------------------------------- inference client
FailureReasoning(message) ==
    IF message = "SAFETY" THEN "failed: blocked by content policy"
    ELSE IF message = "timed out" THEN "failed: timed out"
    ELSE "failed: network"

\* solveProblemFromImage without its catch block: a rejection of the race
\* rejects the promise performScan awaits.
solveProblemFromImage_Rethrows(o) ==
    IF o.kind = "response"
    THEN [threw |-> FALSE, text |-> o.answer, reasoning |-> "explanation",
          sources |-> <<>>, message |-> Undefined]
    ELSE [threw |-> TRUE, text |-> "", reasoning |-> "", sources |-> <<>>,
          message |-> o.message]

\* solveProblemFromImage: the value its promise resolves with.  The try block
\* returns the parsed response; the catch block turns every rejection of the
\* race, the timeout included, into a returned value.
solveProblemFromImage(o) ==
    IF o.kind = "response"
    THEN [threw |-> FALSE, text |-> o.answer, reasoning |-> "explanation",
          sources |-> <<>>, message |-> Undefined]
    ELSE [threw |-> FALSE, text |-> "Error", reasoning |-> FailureReasoning(o.message),
          sources |-> <<>>, message |-> Undefined]

\* ---------------------------------------------------------------- camera
\* capture(): null only without a 2d context; the video and canvas elements
\* are rendered whether or not the camera is on, and without a stream the
\* canvas is 0 x 0, for which toDataURL() still returns a (non-empty) string.
capture(ctx) == IF ctx THEN "data:image/jpeg" ELSE NULL

\* ------------------------------------------------------------ performScan
\* performScan without the guard on the lock.
performScan_NoLockCheck(ctx, dt) ==
    LET imageBase64 == capture(ctx)
        newId == now
    IN  IF imageBase64 = NULL
        THEN /\ lastOp' = "scanNoFrame"
             /\ UNCHANGED orchVars
        ELSE /\ isProcessing' = TRUE
             /\ now' = now + dt
             /\ results' = <<NewResult(newId, now + dt, imageBase64)>> \o results
             /\ timeUntilNextScan' = AUTO_SCAN_INTERVAL_MS
             /\ calls' = Append(calls, newId)
             /\ lastOp' = "scanStarted"

\* performScan resetting the countdown before it reads the lock.
performScan_ResetFirst(ctx, dt) ==
    LET imageBase64 == capture(ctx)
        newId == now
    IN  IF isProcessing
        THEN /\ lastOp' = "scanSkippedLocked"
             /\ timeUntilNextScan' = AUTO_SCAN_INTERVAL_MS
             /\ UNCHANGED <<results, isProcessing, calls, now>>
        ELSE IF imageBase64 = NULL
        THEN /\ lastOp' = "scanNoFrame"
             /\ UNCHANGED orchVars
        ELSE /\ isProcessing' = TRUE
             /\ now' = now + dt
             /\ results' = <<NewResult(newId, now + dt, imageBase64)>> \o results
             /\ timeUntilNextScan' = AUTO_SCAN_INTERVAL_MS
             /\ calls' = Append(calls, newId)
             /\ lastOp' = "scanStarted"

\* performScan adding the new record at the tail of the history.
performScan_Append(ctx, dt) ==
    LET imageBase64 == capture(ctx)
        newId == now
    IN  IF isProcessing
        THEN /\ lastOp' = "scanSkippedLocked"
             /\ UNCHANGED orchVars
        ELSE IF imageBase64 = NULL
        THEN /\ lastOp' = "scanNoFrame"
             /\ UNCHANGED orchVars
        ELSE /\ isProcessing' = TRUE
             /\ now' = now + dt
             /\ results' = Append(results, NewResult(newId, now + dt, imageBase64))
             /\ timeUntilNextScan' = AUTO_SCAN_INTERVAL_MS
             /\ calls' = Append(calls, newId)
             /\ lastOp' = "scanStarted"

\* performScan taking the lock before capture() and returning without
\* releasing it when there is no frame.
performScan_LockBeforeCapture(ctx, dt) ==
    LET imageBase64 == capture(ctx)
        newId == now
    IN  IF isProcessing
        THEN /\ lastOp' = "scanSkippedLocked"
             /\ UNCHANGED orchVars
        ELSE IF imageBase64 = NULL
        THEN /\ lastOp' = "scanNoFrame"
             /\ isProcessing' = TRUE
             /\ UNCHANGED <<results, timeUntilNextScan, calls, now>>
        ELSE /\ isProcessing' = TRUE
             /\ now' = now + dt
             /\ results' = <<NewResult(newId, now + dt, imageBase64)>> \o results
             /\ timeUntilNextScan' = AUTO_SCAN_INTERVAL_MS
             /\ calls' = Append(calls, newId)
             /\ lastOp' = "scanStarted"

\* The synchronous part of performScan, up to the await.  cameraRef.current is
\* set once CameraView is mounted, which App renders unconditionally, so the
\* first early return is never taken.  isActive is not read.  newId and
\* timestamp are two readings of Date.now(), dt milliseconds apart.
performScan(ctx, dt) ==
    LET imageBase64 == capture(ctx)
        newId == now
    IN  IF isProcessing
        THEN /\ lastOp' = "scanSkippedLocked"
             /\ UNCHANGED orchVars
        ELSE IF imageBase64 = NULL
        THEN /\ lastOp' = "scanNoFrame"
             /\ UNCHANGED orchVars
        ELSE /\ isProcessing' = TRUE
             /\ now' = now + dt
             /\ results' = <<NewResult(newId, now + dt, imageBase64)>> \o results
             /\ timeUntilNextScan' = AUTO_SCAN_INTERVAL_MS
             /\ calls' = Append(calls, newId)
             /\ lastOp' = "scanStarted"

\* The bound on one run: scans started and clock readings.
WithinBounds(ctx, dt) == ctx => (Len(results) < MaxResults /\ now + dt <= MaxClock)

RemoveAt(s, i) == [k \in 1..(Len(s) - 1) |-> IF k < i THEN s[k] ELSE s[k + 1]]

\* SettleScan releasing the lock on the success path only (no finally).
SettleScan_NoFinally(i, o) ==
    LET newId == calls[i]
        r == solveProblemFromImage(o)
        patch(x) == [x EXCEPT !.loading = FALSE, !.text = r.text,
                              !.reasoning = r.reasoning, !.sources = r.sources]
    IN  /\ results' = [k \in DOMAIN results |->
                          IF results[k].id = newId THEN patch(results[k]) ELSE results[k]]
        /\ isProcessing' = IF r.text = "Error" THEN isProcessing ELSE FALSE
        /\ calls' = RemoveAt(calls, i)
        /\ lastOp' = IF o.kind = "response" THEN "settledResponse"
                     ELSE IF o.kind = "timeout" THEN "settledTimeout"
                     ELSE "settledRejected"
        /\ UNCHANGED <<timeUntilNextScan, now>>

\* SettleScan that releases the lock and leaves the patch of the record to a
\* later step.
SettleScan_UnlockBeforePatch(i, o) ==
    /\ isProcessing' = FALSE
    /\ calls' = RemoveAt(calls, i)
    /\ lastOp' = IF o.kind = "response" THEN "settledResponse"
                 ELSE IF o.kind = "timeout" THEN "settledTimeout"
                 ELSE "settledRejected"
    /\ UNCHANGED <<results, timeUntilNextScan, now>>

\* SettleScan whose patch leaves out reasoning and sources.
SettleScan_TextOnly(i, o) ==
    LET newId == calls[i]
        r == solveProblemFromImage(o)
        patch(x) == [x EXCEPT !.loading = FALSE, !.text = r.text]
    IN  /\ results' = [k \in DOMAIN results |->
                          IF results[k].id = newId THEN patch(results[k]) ELSE results[k]]
        /\ isProcessing' = FALSE
        /\ calls' = RemoveAt(calls, i)
        /\ lastOp' = IF o.kind = "response" THEN "settledResponse"
                     ELSE IF o.kind = "timeout" THEN "settledTimeout"
                     ELSE "settledRejected"
        /\ UNCHANGED <<timeUntilNextScan, now>>

\* The continuation of performScan after the await: try / catch / finally.
SettleScan(i, o) ==
    LET newId == calls[i]
        r == solveProblemFromImage(o)
        patch(x) == IF r.threw
                    THEN [x EXCEPT !.loading = FALSE, !.error = r.message]
                    ELSE [x EXCEPT !.loading = FALSE, !.text = r.text,
                                   !.reasoning = r.reasoning, !.sources = r.sources]
    IN  /\ results' = [k \in DOMAIN results |->
                          IF results[k].id = newId THEN patch(results[k]) ELSE results[k]]
        /\ isProcessing' = FALSE
        /\ calls' = RemoveAt(calls, i)
        /\ lastOp' = IF o.kind = "response" THEN "settledResponse"
                     ELSE IF o.kind = "timeout" THEN "settledTimeout"
                     ELSE "settledRejected"
        /\ UNCHANGED <<timeUntilNextScan, now>>

\* ----------------------------------------------------------------- actions
\* The SCAN button, rendered only while isActive.
ManualScan ==
    /\ isActive
    /\ \E ctx \in BOOLEAN, dt \in 0..1 : WithinBounds(ctx, dt) /\ performScan(ctx, dt)
    /\ UNCHANGED <<isActive, toggles, timerVars, camVars, otherVars>>

\* The callback of the interval armed by the scan effect.
intervalCallback ==
    /\ intervalOn
    /\ \E ctx \in BOOLEAN, dt \in 0..1 : WithinBounds(ctx, dt) /\ performScan(ctx, dt)
    /\ UNCHANGED <<isActive, toggles, timerVars, camVars, untimedVars>>

IntervalScan == intervalCallback /\ UNCHANGED timedVars

\* The callback of the setTimeout(performScan, 1500) armed by toggle e.
stabilizationCallback(e) ==
    /\ e \in stabTimeouts
    /\ stabTimeouts' = stabTimeouts \ {e}
    /\ \E ctx \in BOOLEAN, dt \in 0..1 : WithinBounds(ctx, dt) /\ performScan(ctx, dt)
    /\ UNCHANGED <<isActive, toggles, intervalOn, timerOn, camVars, untimedVars>>

StabilizationScan ==
    \E e \in stabTimeouts : stabilizationCallback(e) /\ UNCHANGED timedVars

\* The race settles with the API's response.
InferenceResponds ==
    \E i \in DOMAIN calls, o \in RaceOutcomes :
        /\ o.kind = "response"
        /\ SettleScan(i, o)
        /\ UNCHANGED <<isActive, toggles, timerVars, camVars, otherVars>>

\* The race settles with the API's rejection.
InferenceRejects ==
    \E i \in DOMAIN calls, o \in RaceOutcomes :
        /\ o.kind = "rejected"
        /\ SettleScan(i, o)
        /\ UNCHANGED <<isActive, toggles, timerVars, camVars, otherVars>>

\* The race settles with the rejection of timeoutCall; apiCall is not
\* cancelled and stays unsettled.
InferenceTimesOut ==
    \E i \in DOMAIN calls, o \in RaceOutcomes :
        /\ o.kind = "timeout"
        /\ SettleScan(i, o)
        /\ lateCalls' = lateCalls \cup {calls[i]}
        /\ UNCHANGED <<isActive, toggles, timerVars, camVars, timedVars, parseVars, zoomVars>>

\* An apiCall settles after its race was lost, applying its result to the record.
lateSettle_Applied(id, o) ==
    LET r == solveProblemFromImage(o)
    IN  /\ results' = [k \in DOMAIN results |->
                          IF results[k].id = id
                          THEN [results[k] EXCEPT !.loading = FALSE, !.text = r.text,
                                      !.reasoning = r.reasoning, !.sources = r.sources]
                          ELSE results[k]]
        /\ UNCHANGED <<timeUntilNextScan, isProcessing, calls, now>>

\* Promise.race has settled and solveProblemFromImage has returned: apiCall has
\* no other continuation, so its late result reaches nothing.
lateSettle(id, o) == UNCHANGED orchVars

\* An abandoned apiCall resolves or rejects.
LateApiSettles ==
    \E id \in lateCalls, o \in RaceOutcomes :
        /\ o.kind \in {"response", "rejected"}
        /\ lateCalls' = lateCalls \ {id}
        /\ lateSettle(id, o)
        /\ lastOp' = "lateResultDropped"
        /\ UNCHANGED <<isActive, toggles, timerVars, camVars, timedVars, parseVars, zoomVars>>

\* The countdown callback wrapping only below zero.
countdownCallback_WrapBelowZero ==
    /\ timerOn
    /\ LET next == timeUntilNextScan - COUNTDOWN_STEP_MS
       IN  timeUntilNextScan' = IF next < 0 THEN AUTO_SCAN_INTERVAL_MS ELSE next
    /\ lastOp' = "tick"
    /\ UNCHANGED <<isActive, toggles, results, isProcessing, calls, now, timerVars, camVars,
                   untimedVars>>

\* The callback of the countdown interval.
countdownCallback ==
    /\ timerOn
    /\ LET next == timeUntilNextScan - COUNTDOWN_STEP_MS
       IN  timeUntilNextScan' = IF next <= 0 THEN AUTO_SCAN_INTERVAL_MS ELSE next
    /\ lastOp' = "tick"
    /\ UNCHANGED <<isActive, toggles, results, isProcessing, calls, now, timerVars, camVars,
                   untimedVars>>

CountdownTick ==
    /\ timeUntilNextScan > AUTO_SCAN_INTERVAL_MS - MaxTicks * COUNTDOWN_STEP_MS
    /\ countdownCallback
    /\ UNCHANGED timedVars

\* The CameraView effect for a change of isActive: the cleanup of the previous
\* run, then the body of the new one.
CameraEffect(newState, e) ==
    LET afterCleanup == IF curStream # NoStream THEN liveStreams \ {curStream}
                        ELSE liveStreams
    IN  /\ curStream' = NoStream
        /\ IF newState
           THEN /\ hdPending' = hdPending \cup {e}
                /\ liveStreams' = afterCleanup
                /\ UNCHANGED <<srcObject, vgaPending, supportsZoom>>
           ELSE /\ liveStreams' = IF srcObject # NoStream THEN afterCleanup \ {srcObject}
                                  ELSE afterCleanup
                /\ srcObject' = NoStream
                /\ supportsZoom' = IF srcObject # NoStream THEN FALSE ELSE supportsZoom
                /\ UNCHANGED <<hdPending, vgaPending>>

\* handleToggle that cancels the scan in flight when it deactivates: the call
\* is dropped and the lock released.
toggleAndEffects_CancelsScan ==
    /\ toggles < MaxToggles
    /\ LET newState == ~isActive
           e == toggles + 1
       IN  /\ isActive' = newState
           /\ toggles' = e
           /\ stabTimeouts' = IF newState THEN stabTimeouts \cup {e} ELSE stabTimeouts
           /\ timeUntilNextScan' = AUTO_SCAN_INTERVAL_MS
           /\ timerOn' = newState
           /\ intervalOn' = newState
           /\ CameraEffect(newState, e)
           /\ isProcessing' = IF newState THEN isProcessing ELSE FALSE
           /\ calls' = IF newState THEN calls ELSE <<>>
           /\ lastOp' = IF newState THEN "toggledOn" ELSE "toggledOff"
    /\ UNCHANGED <<results, now, untimedVars>>

\* handleToggle with a countdown effect that does not reset the countdown
\* when isActive becomes false.
toggleAndEffects_NoResetOnOff ==
    /\ toggles < MaxToggles
    /\ LET newState == ~isActive
           e == toggles + 1
       IN  /\ isActive' = newState
           /\ toggles' = e
           /\ stabTimeouts' = IF newState THEN stabTimeouts \cup {e} ELSE stabTimeouts
           /\ timeUntilNextScan' = IF newState THEN AUTO_SCAN_INTERVAL_MS
                                   ELSE timeUntilNextScan
           /\ timerOn' = newState
           /\ intervalOn' = newState
           /\ CameraEffect(newState, e)
           /\ lastOp' = IF newState THEN "toggledOn" ELSE "toggledOff"
    /\ UNCHANGED <<results, isProcessing, calls, now, untimedVars>>

\* handleToggle and the effects of the render it causes.
toggleAndEffects ==
    /\ toggles < MaxToggles
    /\ LET newState == ~isActive
           e == toggles + 1
       IN  /\ isActive' = newState
           /\ toggles' = e
           /\ stabTimeouts' = IF newState THEN stabTimeouts \cup {e} ELSE stabTimeouts
           /\ timeUntilNextScan' = AUTO_SCAN_INTERVAL_MS
           /\ timerOn' = newState
           /\ intervalOn' = newState
           /\ CameraEffect(newState, e)
           /\ lastOp' = IF newState THEN "toggledOn" ELSE "toggledOff"
    /\ UNCHANGED <<results, isProcessing, calls, now, untimedVars>>

handleToggle == toggleAndEffects /\ UNCHANGED timedVars

\* startCamera after an awaited getUserMedia resolved for effect run e: the
\* stream is kept in the run's variable `stream` and attached to the video.
AcquireResolves(e, mode) ==
    /\ liveStreams' = liveStreams \cup {Stream(e, mode)}
    /\ srcObject' = Stream(e, mode)
    /\ curStream' = IF e = toggles THEN Stream(e, mode) ELSE curStream

\* Zoom levels in tenths.  A device reports a range with 0 < min <= max and a
\* current setting inside it, or no zoom capability.
ReportedZooms == {5, 10, 30}

ZOOM_PRESETS == 7..15

\* Levels handleZoomClick is called with: the presets and one level on either
\* side of every range.
TargetZooms == ZOOM_PRESETS \cup {1, 50}

NoZoomCapability == [zoom |-> FALSE, min |-> 0, max |-> 0, current |-> 0]

Capabilities ==
    {NoZoomCapability} \cup
    {[zoom |-> TRUE, min |-> mn, max |-> mx, current |-> z] :
        <<mn, mx, z>> \in {t \in ReportedZooms \X ReportedZooms \X ReportedZooms :
                              t[1] <= t[2] /\ t[3] \in {t[1], t[2]}}}

\* value || fallback
OrDefault(value, fallback) == IF value = 0 THEN fallback ELSE value

Min(a, b) == IF a <= b THEN a ELSE b
Max(a, b) == IF a >= b THEN a ELSE b

\* newZoom without the upper limit.
newZoom_LowerLimitOnly(targetZoom) == Max(targetZoom, minZoom)

\* Math.min(Math.max(targetZoom, minZoom), maxZoom)
newZoom(targetZoom) == Min(Max(targetZoom, minZoom), maxZoom)

\* handleZoomClick(targetZoom).  The chips call it with the presets inside
\* [minZoom, maxZoom]; here it is called with any level.
handleZoomClick ==
    \E targetZoom \in TargetZooms :
        /\ zoom' = newZoom(targetZoom)
        /\ lastOp' = IF targetZoom < minZoom \/ targetZoom > maxZoom
                     THEN "zoomClamped" ELSE "zoomSet"
        /\ UNCHANGED <<minZoom, maxZoom, isActive, toggles, orchVars, timerVars, camVars,
                       lateVars, timedVars, parseVars>>

\* startCamera resumes in its try block: the preferred getUserMedia resolved.
PreferredResolves ==
    \E e \in hdPending, caps \in Capabilities :
        /\ hdPending' = hdPending \ {e}
        /\ AcquireResolves(e, "hd")
        /\ supportsZoom' = caps.zoom
        /\ IF caps.zoom
           THEN /\ minZoom' = OrDefault(caps.min, DEFAULT_MIN_ZOOM)
                /\ maxZoom' = OrDefault(caps.max, DEFAULT_MAX_ZOOM)
                /\ zoom' = OrDefault(caps.current, DEFAULT_ZOOM)
           ELSE UNCHANGED zoomVars
        /\ lastOp' = IF caps.zoom THEN "cameraStarted" ELSE "cameraStartedNoZoom"
        /\ UNCHANGED vgaPending
        /\ UNCHANGED <<isActive, toggles, orchVars, timerVars, lateVars, timedVars,
                       parseVars>>

\* startCamera resumes in its try block and track.getCapabilities() throws (a
\* browser without that method): the stream is already assigned and attached,
\* and control passes to the catch block, which starts the fallback
\* getUserMedia.
PreferredResolvesCapabilitiesThrow ==
    \E e \in hdPending :
        /\ hdPending' = hdPending \ {e}
        /\ AcquireResolves(e, "hd")
        /\ vgaPending' = vgaPending \cup {e}
        /\ lastOp' = "cameraFallbackAfterThrow"
        /\ UNCHANGED <<supportsZoom, isActive, toggles, orchVars, timerVars, otherVars>>

\* startCamera resumes in its catch block: the preferred getUserMedia was rejected.
PreferredRejects ==
    \E e \in hdPending :
        /\ hdPending' = hdPending \ {e}
        /\ vgaPending' = vgaPending \cup {e}
        /\ lastOp' = "cameraFallback"
        /\ UNCHANGED <<srcObject, curStream, liveStreams, supportsZoom, isActive, toggles,
                       orchVars, timerVars, otherVars>>

\* The fallback getUserMedia resolved.
FallbackResolves ==
    \E e \in vgaPending :
        /\ vgaPending' = vgaPending \ {e}
        /\ AcquireResolves(e, "vga")
        /\ lastOp' = "cameraStarted"
        /\ UNCHANGED <<hdPending, supportsZoom, isActive, toggles, orchVars, timerVars,
                       otherVars>>

\* The fallback getUserMedia was rejected.
FallbackRejects ==
    \E e \in vgaPending :
        /\ vgaPending' = vgaPending \ {e}
        /\ lastOp' = "cameraFailed"
        /\ UNCHANGED <<srcObject, curStream, liveStreams, hdPending, supportsZoom, isActive,
                       toggles, orchVars, timerVars, otherVars>>

\* A millisecond passes.  Date.now() is taken not to run backwards; it may
\* stay at one value across several tasks.
ClockAdvance ==
    /\ now < MaxClock
    /\ now' = now + 1
    /\ UNCHANGED <<isActive, results, timeUntilNextScan, isProcessing, intervalOn, timerOn,
                   stabTimeouts, calls, toggles, camVars, otherVars, lastOp>>

\* ------------------------------------------------------------ timed view
\* The same handlers with the delays of their timers.  Time passes in steps of
\* the largest quantum that lands on every due time; a callback runs when its
\* timer is due, before time passes further.
RECURSIVE GCD(_, _)
GCD(a, b) == IF b = 0 THEN a ELSE GCD(b, a % b)

Quantum == GCD(GCD(COUNTDOWN_STEP_MS, STABILIZATION_DELAY_MS), AUTO_SCAN_INTERVAL_MS)

TimerDue ==
    \/ intervalOn /\ intervalLeft = 0
    \/ timerOn /\ tickLeft = 0
    \/ \E t \in stabLeft : t[2] = 0

TimePasses ==
    /\ ~TimerDue
    /\ intervalOn \/ timerOn \/ stabLeft # {}
    /\ intervalLeft' = IF intervalOn THEN intervalLeft - Quantum ELSE intervalLeft
    /\ tickLeft' = IF timerOn THEN tickLeft - Quantum ELSE tickLeft
    /\ stabLeft' = {<<t[1], t[2] - Quantum>> : t \in stabLeft}
    /\ UNCHANGED <<isActive, toggles, orchVars, timerVars, camVars, untimedVars, lastOp>>

\* handleToggle: setInterval(..., 1000) and setInterval(..., AUTO_SCAN_INTERVAL_MS)
\* in the effects, clearInterval in their cleanups, setTimeout(performScan, 1500).
TimedToggle ==
    /\ toggleAndEffects
    /\ intervalLeft' = IF isActive' THEN AUTO_SCAN_INTERVAL_MS ELSE 0
    /\ tickLeft' = IF isActive' THEN COUNTDOWN_STEP_MS ELSE 0
    /\ stabLeft' = IF isActive' THEN stabLeft \cup {<<toggles', STABILIZATION_DELAY_MS>>}
                   ELSE stabLeft

TimedTick ==
    /\ tickLeft = 0
    /\ countdownCallback
    /\ tickLeft' = COUNTDOWN_STEP_MS
    /\ UNCHANGED <<intervalLeft, stabLeft>>

TimedIntervalScan ==
    /\ intervalLeft = 0
    /\ intervalCallback
    /\ intervalLeft' = AUTO_SCAN_INTERVAL_MS
    /\ UNCHANGED <<tickLeft, stabLeft>>

TimedStabilizationScan ==
    \E t \in stabLeft :
        /\ t[2] = 0
        /\ stabilizationCallback(t[1])
        /\ stabLeft' = stabLeft \ {t}
        /\ UNCHANGED <<intervalLeft, tickLeft>>

\* ------------------------------------------------------- answer clean-up
\* response.text is a sequence of tokens.  "c" stands for a lower-case letter
\* of a-e, "x" for any character outside [A-E1-5,\s], "Answer:" for the
\* prefix the clean-up removes, and the words are tokens of several characters.
Tokens == {"A", "c", "1", "x", ",", " ", "**", "Answer:", "UNKNOWN", "---SPLIT---"}

\* fullText when response.text is empty.
NoResultText == <<"no result text">>

TokenLength(t) ==
    CASE t = "**" -> 2
      [] t \in {"Answer:", "UNKNOWN"} -> 7
      [] t = "---SPLIT---" -> 11
      [] t = "no result text" -> 17
      [] OTHER -> 1

ValidChars == {"A", "c", "1", ",", " "}     \* [A-E1-5,\s], case-insensitive
AnswerChars == {"A", "c", "1"}              \* [A-E1-5], case-insensitive

SeqsUpTo(S, n) == UNION {[1..k -> S] : k \in 0..n}

\* Valid characters only, but one more than MAX_ANSWER_LENGTH of them.
LongTail == [k \in 1..(MAX_ANSWER_LENGTH + 1) |-> IF k % 2 = 1 THEN " " ELSE "A"]

RawOutputs ==
    SeqsUpTo(Tokens, MaxLen) \cup {s \o LongTail : s \in SeqsUpTo(Tokens, 1)}

RECURSIVE length(_)
length(s) == IF s = <<>> THEN 0 ELSE TokenLength(Head(s)) + length(Tail(s))

RECURSIVE trimStart(_)
trimStart(s) == IF s # <<>> /\ Head(s) = " " THEN trimStart(Tail(s)) ELSE s

RECURSIVE trimEnd(_)
trimEnd(s) ==
    IF s # <<>> /\ s[Len(s)] = " " THEN trimEnd(SubSeq(s, 1, Len(s) - 1)) ELSE s

trim(s) == trimEnd(trimStart(s))

remove(s, t) == LET keep(x) == x # t IN SelectSeq(s, keep)

\* split(sep): the pieces of s between the occurrences of sep.
RECURSIVE split(_, _)
split(s, sep) ==
    IF \A i \in DOMAIN s : s[i] # sep
    THEN <<s>>
    ELSE LET i == CHOOSE j \in DOMAIN s : s[j] = sep /\ \A k \in 1..(j - 1) : s[k] # sep
         IN  <<SubSeq(s, 1, i - 1)>> \o split(SubSeq(s, i + 1, Len(s)), sep)

RECURSIVE join(_, _)
join(pieces, sep) ==
    IF pieces = <<>> THEN <<>>
    ELSE IF Len(pieces) = 1 THEN pieces[1]
    ELSE pieces[1] \o sep \o join(Tail(pieces), sep)

toUpperCase(s) ==
    [i \in DOMAIN s |-> CASE s[i] = "c" -> "C"
                          [] s[i] = "x" -> "X"
                          [] s[i] = "Answer:" -> "ANSWER:"
                          [] OTHER -> s[i]]

\* replace(/^Answer[:\s]*/i, '')
removeAnswerPrefix(s) ==
    IF s # <<>> /\ Head(s) = "Answer:" THEN trimStart(Tail(s)) ELSE s

\* The answer text solveProblemFromImage returns for response.text.
validateAnswer(responseText) ==
    LET fullText == IF responseText = <<>> THEN NoResultText ELSE responseText
        parts == split(fullText, "---SPLIT---")
        rawText == trim(removeAnswerPrefix(remove(trim(parts[1]), "**")))
        upperText == toUpperCase(rawText)
        isValidChars == rawText # <<>> /\ \A i \in DOMAIN rawText : rawText[i] \in ValidChars
        isShortEnough == length(rawText) <= MAX_ANSWER_LENGTH
        match == /\ rawText # <<>>
                 /\ rawText[1] \in AnswerChars
                 /\ (Len(rawText) = 1 \/ rawText[2] = " ")
        nonEmpty(piece) == piece # <<>>
    IN  IF \E i \in DOMAIN upperText : upperText[i] = "UNKNOWN"
        THEN <<"UNKNOWN">>
        ELSE IF ~isValidChars \/ ~isShortEnough
        THEN IF match THEN toUpperCase(<<rawText[1]>>) ELSE <<"ERROR">>
        ELSE join(SelectSeq(split(remove(upperText, " "), ","), nonEmpty), <<",", " ">>)

\* solveProblemFromImage reaches its return with the cleaned-up answer.
ParseAnswer ==
    /\ lastOp # "answerParsed"
    /\ answerText' = validateAnswer(rawOutput)
    /\ lastOp' = "answerParsed"
    /\ UNCHANGED <<isActive, toggles, orchVars, timerVars, camVars, lateVars, timedVars,
                   zoomVars, rawOutput>>

AppInit ==
    /\ isActive = FALSE
    /\ results = <<>>
    /\ timeUntilNextScan = AUTO_SCAN_INTERVAL_MS
    /\ isProcessing = FALSE
    /\ intervalOn = FALSE
    /\ timerOn = FALSE
    /\ stabTimeouts = {}
    /\ calls = <<>>
    /\ now = 0
    /\ toggles = 0
    /\ srcObject = NoStream
    /\ curStream = NoStream
    /\ liveStreams = {}
    /\ hdPending = {}
    /\ vgaPending = {}
    /\ supportsZoom = FALSE
    /\ lateCalls = {}
    /\ intervalLeft = 0
    /\ tickLeft = 0
    /\ stabLeft = {}
    /\ answerText = <<>>
    /\ zoom = 10
    /\ minZoom = 10
    /\ maxZoom = 10
    /\ lastOp = "init"

Init == AppInit /\ rawOutput = <<>>

\* A response with some raw text is about to be cleaned up.
ParseInit == AppInit /\ rawOutput \in RawOutputs

Next ==
    \/ handleToggle
    \/ ManualScan
    \/ IntervalScan
    \/ StabilizationScan
    \/ InferenceResponds
    \/ InferenceRejects
    \/ InferenceTimesOut
    \/ LateApiSettles
    \/ CountdownTick
    \/ ClockAdvance

\* The orchestrator.  No action of App reads the camera's stream state
\* (capture() depends on the elements and the 2d context only), so the settling
\* of device acquisitions is left to CameraSpec.
Spec == Init /\ [][Next]_vars

\* The orchestrator with timed timers.  The button and the toggle may be
\* pressed at any multiple of the quantum; the inference call takes any time.
TimedNext ==
    \/ TimedToggle
    \/ TimePasses
    \/ TimedTick
    \/ TimedIntervalScan
    \/ TimedStabilizationScan
    \/ ManualScan
    \/ InferenceResponds

TimedSpec == Init /\ [][TimedNext]_vars

\* The camera component alone: toggles and the settling of device acquisitions.
CameraNext ==
    \/ handleToggle
    \/ PreferredResolves
    \/ PreferredRejects
    \/ FallbackResolves
    \/ FallbackRejects

CameraSpec == Init /\ [][CameraNext]_vars

\* startCamera with every way its try block can end.
StartNext ==
    \/ handleToggle
    \/ PreferredResolves
    \/ PreferredResolvesCapabilitiesThrow
    \/ PreferredRejects
    \/ FallbackResolves
    \/ FallbackRejects

StartSpec == Init /\ [][StartNext]_vars

\* The camera with its zoom control.
ZoomNext ==
    \/ handleToggle
    \/ PreferredResolves
    \/ PreferredRejects
    \/ FallbackResolves
    \/ FallbackRejects
    \/ handleZoomClick

ZoomSpec == Init /\ [][ZoomNext]_vars

\* The answer clean-up applied to one raw output.
ParseNext == ParseAnswer

ParseSpec == ParseInit /\ [][ParseNext]_vars

\* The camera together with the scans that call capture().
CaptureNext ==
    \/ handleToggle
    \/ PreferredResolves
    \/ PreferredRejects
    \/ FallbackResolves
    \/ FallbackRejects
    \/ ManualScan
    \/ IntervalScan
    \/ StabilizationScan
    \/ InferenceResponds

CaptureSpec == Init /\ [][CaptureNext]_vars

\* The orchestrator under the scheduling the event loop guarantees: the
\* setTimeout of timeoutCall fires, so a pending race settles.
FairSpec == Spec /\ WF_vars(InferenceTimesOut)

\* ---------------------------------------------------------------- claims
Pending == {k \in DOMAIN results : results[k].loading}

\* Any invocation of performScan: button, interval or stabilization timeout.
ScanCall == ManualScan \/ IntervalScan \/ StabilizationScan

\* C1: in every reachable state at most one record of the history is pending.
C1_AtMostOnePending == Cardinality(Pending) <= 1

\* A scan was requested and skipped while the one pending record was in flight.
C1_Witness ==
    /\ lastOp = "scanSkippedLocked"
    /\ Cardinality(Pending) = 1
    /\ Len(results) >= 2

\* C2: a performScan invoked while the lock is held changes neither the history
\* nor the countdown, leaves the lock held and starts no inference call.
C2_LockedScanIsNoop ==
    [][(isProcessing /\ ScanCall) =>
          /\ results' = results
          /\ timeUntilNextScan' = timeUntilNextScan
          /\ isProcessing'
          /\ calls' = calls]_vars

\* A second scan request arrived within one round trip, after the countdown
\* had moved: still one record, still one call in flight.
C2_Witness ==
    /\ lastOp = "scanSkippedLocked"
    /\ Len(results) = 1
    /\ Len(calls) = 1
    /\ isProcessing
    /\ timeUntilNextScan < AUTO_SCAN_INTERVAL_MS

\* C3: under fairness of the timeout timer a held lock is eventually released,
\* however the race settles; and a scan requested with a frame while the lock
\* is free starts a new record.
C3_LockEventuallyReleased ==
    /\ isProcessing ~> ~isProcessing
    /\ [][(~isProcessing /\ ScanCall /\ lastOp' # "scanNoFrame") =>
             /\ Len(results') = Len(results) + 1
             /\ results'[1].loading]_vars

\* After a scan that timed out, the next scan started a new record.
C3_Witness ==
    /\ lastOp = "scanStarted"
    /\ Len(results) = 2
    /\ results[1].loading
    /\ results[2].reasoning = "failed: timed out"

\* C4: a scan whose inference timed out or was rejected leaves its record
\* failed, with the error field set, and the lock released.
C4_FailureSetsError ==
    lastOp \in {"settledTimeout", "settledRejected"} =>
        /\ ~results[1].loading
        /\ results[1].error # Undefined
        /\ ~isProcessing

\* C5: a performScan that runs while isActive is false changes nothing: no
\* record, no lock, no countdown reset, no inference call.
C5_InactiveScanIsNoop ==
    [][(~isActive /\ ScanCall) =>
          /\ results' = results
          /\ isProcessing' = isProcessing
          /\ timeUntilNextScan' = timeUntilNextScan
          /\ calls' = calls]_vars

\* C6: a stabilization scan runs only for the current activation: the timeout
\* that fires was armed by the latest toggle, and the orchestrator is active.
C6_StabilizationScanOfCurrentActivation ==
    [][\A e \in stabTimeouts \ stabTimeouts' : isActive /\ e = toggles]_vars

\* C7: once every device acquisition has settled, the camera matches isActive:
\* inactive means no stream attached and none left running; active means the
\* stream the current activation acquired is held and no other is running.
AcquisitionsSettled == hdPending = {} /\ vgaPending = {}

C7_DeviceMatchesActive ==
    AcquisitionsSettled =>
        /\ ~isActive => (srcObject = NoStream /\ liveStreams = {})
        /\ isActive => /\ liveStreams \subseteq {srcObject}
                       /\ curStream # NoStream => srcObject \in liveStreams

\* The immutable part and the whole of the k-th oldest record.
Oldest(h, k) == h[Len(h) - k + 1]

\* C8: a record that is no longer pending is never changed again.
C8_SettledRecordIsFrozen ==
    [][\A k \in 1..Len(results) :
          ~Oldest(results, k).loading => Oldest(results', k) = Oldest(results, k)]_vars

\* C9: any two records of the history have different ids.
C9_UniqueIds ==
    \A i, j \in DOMAIN results : i # j => results[i].id # results[j].id

\* C10: the history is ordered by timestamp, newest first; a step either
\* leaves the records where they are or puts one new record in front of them.
Identity(x) == <<x.id, x.timestamp, x.imageUrl>>

C10_NewestFirst ==
    /\ [](\A i, j \in DOMAIN results :
             i < j => results[i].timestamp >= results[j].timestamp)
    /\ [][\/ /\ Len(results') = Len(results)
             /\ \A k \in DOMAIN results : Identity(results'[k]) = Identity(results[k])
          \/ /\ Len(results') = Len(results) + 1
             /\ Tail(results') = results]_vars

\* A later record sits in front of an earlier one, and the completion of the
\* newer one has been applied.
C10_Witness ==
    /\ Len(results) = 2
    /\ results[1].timestamp > results[2].timestamp
    /\ lastOp = "settledResponse"
    /\ ~results[1].loading

\* C11: an apiCall that settles after the timeout won the race changes no
\* record, the record it was made for included, and does not change the lock.
C11_LateResultDiscarded ==
    [][(lateCalls' # lateCalls /\ lateCalls' \subseteq lateCalls) =>
          /\ results' = results
          /\ isProcessing' = isProcessing]_vars

\* The late result of a timed-out scan arrived while the next scan was in
\* flight; the timed-out record still shows the timeout.
C11_Witness ==
    /\ lastOp = "lateResultDropped"
    /\ isProcessing
    /\ Len(results) = 2
    /\ results[2].reasoning = "failed: timed out"

\* C12: while active, the countdown shows the time left until the callback of
\* the scan interval is due, rounded up to the step of the countdown.
CeilToStep(ms) ==
    ((ms + COUNTDOWN_STEP_MS - 1) \div COUNTDOWN_STEP_MS) * COUNTDOWN_STEP_MS

C12_CountdownMatchesInterval ==
    (isActive /\ ~TimerDue) => timeUntilNextScan = CeilToStep(intervalLeft)

\* C13: when the inference client returns a response, the pending record of the
\* scan takes the returned text, reasoning and sources, stops loading with no
\* error, keeps its id, timestamp and image, and the lock is released.
C13_ResponseCompletesRecord ==
    [][\A o \in RaceOutcomes :
          (o.kind = "response" /\ \E i \in DOMAIN calls : SettleScan(i, o)) =>
              LET r == solveProblemFromImage(o)
              IN  /\ ~isProcessing'
                  /\ Len(results') = Len(results)
                  /\ \A k \in DOMAIN results :
                        results[k].loading =>
                            results'[k] = [id |-> results[k].id,
                                           timestamp |-> results[k].timestamp,
                                           imageUrl |-> results[k].imageUrl,
                                           text |-> r.text, reasoning |-> r.reasoning,
                                           sources |-> r.sources, loading |-> FALSE,
                                           error |-> Undefined]]_vars

\* A scan completed with the answer "B".
C13_Witness ==
    /\ lastOp = "settledResponse"
    /\ results # <<>>
    /\ results[1].text = "B"
    /\ results[1].reasoning = "explanation"
    /\ ~results[1].loading
    /\ ~isProcessing

\* C14: a performScan whose capture() returns no frame adds no record, starts
\* no inference call, leaves the countdown alone and leaves the lock free.
C14_NoFrameAbortsSilently ==
    [][(~isProcessing /\ ScanCall /\ \E dt \in 0..1 : performScan(FALSE, dt)) =>
          /\ results' = results
          /\ calls' = calls
          /\ timeUntilNextScan' = timeUntilNextScan
          /\ ~isProcessing']_vars

\* A scan was requested while active and unlocked, and capture() gave no frame.
C14_Witness ==
    /\ lastOp = "scanNoFrame"
    /\ isActive
    /\ ~isProcessing
    /\ timeUntilNextScan < AUTO_SCAN_INTERVAL_MS

\* C15: whenever isActive is false both intervals are cleared and the countdown
\* is at the full period.
C15_InactiveTimersCleared ==
    ~isActive =>
        /\ ~intervalOn
        /\ ~timerOn
        /\ timeUntilNextScan = AUTO_SCAN_INTERVAL_MS

\* Inactive, with a scan in flight that a stale stabilization timeout started.
C15_Witness ==
    /\ ~isActive
    /\ toggles = 2
    /\ isProcessing
    /\ lastOp = "scanStarted"

\* C16: capture() returns an image only while a stream is attached to the
\* video, so a scan gets a frame (and starts) only then.
C16_FrameOnlyWithStream ==
    [][(ScanCall /\ lastOp' = "scanStarted") => srcObject # NoStream]_vars

\* C17: the answer text returned on the non-failing path is "UNKNOWN", "ERROR",
\* or a non-empty list of single upper-case tokens of A-E / 1-5 joined by ", ".
ShortAnswer(t) ==
    /\ Len(t) % 3 = 1
    /\ \A i \in DOMAIN t :
          /\ i % 3 = 1 => t[i] \in {"A", "C", "1"}
          /\ i % 3 = 2 => t[i] = ","
          /\ i % 3 = 0 => t[i] = " "

C17_AnswerIsSentinelOrShort ==
    lastOp = "answerParsed" =>
        \/ answerText \in {<<"UNKNOWN">>, <<"ERROR">>}
        \/ ShortAnswer(answerText)

C19_LockIffPending == isProcessing <=> Pending # {}

\* A second scan is pending, behind the lock, above a settled record.
C19_Witness ==
    /\ isProcessing
    /\ Len(results) = 2
    /\ Pending = {1}
    /\ lastOp = "scanStarted"

SettleStep ==
    /\ lastOp' \in {"settledResponse", "settledTimeout", "settledRejected"}
    /\ Len(calls') < Len(calls)

\* C20: a completion changes only text, reasoning, sources, loading and error
\* of the pending record, and the lock; every other record, the identity,
\* length and order of results, isActive and the countdown stay as they were.
C20_CompletionFrame ==
    [][SettleStep =>
          /\ Len(results') = Len(results)
          /\ \A k \in DOMAIN results :
                /\ Identity(results'[k]) = Identity(results[k])
                /\ k \notin Pending => results'[k] = results[k]
          /\ isActive' = isActive
          /\ timeUntilNextScan' = timeUntilNextScan]_vars

\* C21: handleToggle changes neither results nor the lock nor the call in
\* flight, and a call that settles while isActive is false still finalizes its
\* record and releases the lock.
C21_ToggleKeepsScanInFlight ==
    [][/\ (isActive' # isActive) =>
             /\ results' = results
             /\ isProcessing' = isProcessing
             /\ calls' = calls
       /\ (SettleStep /\ ~isActive) =>
             /\ ~isProcessing'
             /\ \A k \in DOMAIN results' : ~results'[k].loading
             /\ ~isActive']_vars

\* A scan started by the button or the interval while active (the
\* stabilization timeout has not fired) settled after the toggle to inactive.
C21_Witness ==
    /\ ~isActive
    /\ toggles = 2
    /\ stabTimeouts = {1}
    /\ lastOp = "settledResponse"
    /\ Len(results) = 1
    /\ ~results[1].loading
    /\ ~isProcessing

FailureReasonings == {FailureReasoning(m) : m \in {"network", "SAFETY", "timed out"}}

\* C22: every failure of the remote call (rejection, safety block, timeout)
\* reaches performScan as a resolved value with text "Error" and the message in
\* reasoning, and no record ever has its error field set.
C22_FailuresAreResolvedValues ==
    [][/\ \A k \in DOMAIN results' : results'[k].error = Undefined
       /\ (SettleStep /\ lastOp' \in {"settledTimeout", "settledRejected"}) =>
             \A k \in Pending :
                 /\ ~results'[k].loading
                 /\ results'[k].text = "Error"
                 /\ results'[k].reasoning \in FailureReasonings
                 /\ results'[k].sources = <<>>]_vars

\* A safety block and a timeout both ended as settled records without error.
C22_Witness ==
    /\ Len(results) = 2
    /\ results[1].reasoning = "failed: timed out"
    /\ results[2].reasoning = "failed: blocked by content policy"
    /\ results[1].text = "Error"
    /\ results[1].error = Undefined
    /\ lastOp = "settledTimeout"

\* C23: the countdown is always a positive multiple of the tick, at most the
\* full period.
C23_CountdownInRange ==
    /\ 0 < timeUntilNextScan
    /\ timeUntilNextScan <= AUTO_SCAN_INTERVAL_MS
    /\ timeUntilNextScan % COUNTDOWN_STEP_MS = 0

\* A tick has wrapped the countdown from one step back to the full period.
C23_Witness ==
    /\ lastOp = "tick"
    /\ timeUntilNextScan = AUTO_SCAN_INTERVAL_MS

\* C24: a loading record has empty text, reasoning and sources and no error;
\* a record with an error is not loading and has empty text, reasoning and
\* sources.
C24_RecordFieldsConsistent ==
    \A k \in DOMAIN results :
        /\ results[k].loading =>
              /\ results[k].text = ""
              /\ results[k].reasoning = ""
              /\ results[k].sources = <<>>
              /\ results[k].error = Undefined
        /\ results[k].error # Undefined =>
              /\ ~results[k].loading
              /\ results[k].text = ""
              /\ results[k].reasoning = ""
              /\ results[k].sources = <<>>

\* A loading record with the id of a settled, answered record below it.
C24_Witness ==
    /\ Len(results) = 2
    /\ results[1].loading
    /\ results[1].text = ""
    /\ ~results[2].loading
    /\ results[2].text = "A"
    /\ results[1].id = results[2].id

\* C25: once the acquisitions of the first activation have settled, the only
\* stream left running is the one startCamera holds in `stream` and has
\* attached to the video: the preferred one, or the fallback one if the
\* preferred was rejected, or none if both were.
C25_StartHoldsItsOnlyStream ==
    (toggles = 1 /\ AcquisitionsSettled) =>
        /\ liveStreams \subseteq {curStream}
        /\ srcObject = curStream
        /\ curStream # NoStream => curStream \in liveStreams

====
